---------------------------- MODULE Spec2Model ----------------------------
(***************************************************************************)
(* A model of the hivemind DHT node: the four Kademlia RPC pairs of        *)
(* hivemind/dht/protocol.py (rpc_* handlers and call_* callers) and the    *)
(* construction / bootstrap of hivemind/dht/node.py.                       *)
(*                                                                         *)
(* hivemind/dht/routing.py (RoutingTable, DHTID), hivemind/dht/search.py   *)
(* (beam_search) and the local store reached through `self.node` are not   *)
(* part of the sources at hand; they are modelled from the specification   *)
(* and marked as such where they are defined.  asyncio and the rpcudp      *)
(* transport are external collaborators: the transport answers a request   *)
(* with (responded, payload) and asyncio.wait rejects an empty task set.   *)
(*                                                                         *)
(* The bodies of the handlers and callers are modelled statement by        *)
(* statement.  call_find_node and call_find_value are declared with `def`  *)
(* although they await; they are modelled as the coroutines their bodies   *)
(* describe.                                                               *)
(***************************************************************************)
EXTENDS Integers, Sequences, FiniteSets, TLC

(***************************************************************************)
(* Bounds of the model.                                                    *)
(***************************************************************************)
IdBits == 3            \* width of an identifier
MaxTime == 3           \* the monotonic clock runs 0..MaxTime
MaxRpcs == 2           \* requests issued in a behaviour of Spec
MaxStoreRpcs == 2      \* requests issued in a behaviour of SpecStore
MaxRouteRpcs == 3      \* requests issued in a behaviour of SpecRoute
BucketSize == 2        \* bucket_size handed to every node
DepthModulo == 1       \* depth_modulo handed to every node
MaxWait == 2           \* wait_timeout is drawn from 1..MaxWait
MaxInFlight == 2       \* requests in flight at once
Alpha == 2             \* find_node requests a lookup keeps in flight
MaxObservations == 4   \* pings handled in a behaviour of SpecTable

IdSpace == 0 .. (2 ^ IdBits - 1)

\* The running peers, named by their identifiers.  Requests go from the
\* callers to the servers.
Nodes == {1, 2, 5, 6}
Servers == {1}
Callers == {2, 5, 6}
StoreCallers == {2}
\* The node under construction and the running peers it may be pointed at.
Joiner == CHOOSE n \in Nodes : \A m \in Nodes : m <= n
BootPeers == {1, 2}

\* Optional[...] values: None for an identifier, an expiration and a value.
NoneId == 0 - 1
NoneExp == 0 - 1
NoneValue == "None"

\* An endpoint is an opaque (host, port) pair; it is not the identifier.
EndpointOf(n) == <<"127.0.0.1", 8000 + n>>
NodeAt(endpoint) == endpoint[2] - 8000

Keys == {2, 3}
Values == {"v1", "v2"}
Expirations == 1 .. MaxTime

(***************************************************************************)
(* Identifier & distance (routing.DHTID, modelled from the specification). *)
(***************************************************************************)
RECURSIVE XorBits(_, _, _)
XorBits(a, b, bits) ==
    IF bits = 0 THEN 0
    ELSE (IF (a % 2) = (b % 2) THEN 0 ELSE 1)
         + 2 * XorBits(a \div 2, b \div 2, bits - 1)

xor_distance(a, b) == XorBits(a, b, IdBits)

(***************************************************************************)
(* Routing table (routing.RoutingTable, modelled from the specification).  *)
(* A bucket covers [lower, upper), keeps at most bucket_size entries       *)
(* <<id, endpoint>> ordered least-recently-seen first, and keeps           *)
(* replacement candidates apart.                                           *)
(***************************************************************************)
KBucket(lower, upper, depth, now) ==
    [lower |-> lower, upper |-> upper, depth |-> depth,
     nodes |-> <<>>, replacement |-> <<>>, last_updated |-> now]

RoutingTable(node_id, bucket_size, depth_modulo, now) ==
    [node_id |-> node_id, bucket_size |-> bucket_size,
     depth_modulo |-> depth_modulo,
     buckets |-> <<KBucket(0, 2 ^ IdBits, 0, now)>>]

has_in_range(bucket, id) == bucket.lower <= id /\ id < bucket.upper

IdsOf(entries) == {entries[i][1] : i \in 1 .. Len(entries)}

WithoutId(entries, id) == SelectSeq(entries, LAMBDA e : e[1] # id)

InHalf(entries, lower, upper) ==
    SelectSeq(entries, LAMBDA e : lower <= e[1] /\ e[1] < upper)

get_bucket_index(table, id) ==
    CHOOSE i \in 1 .. Len(table.buckets) : has_in_range(table.buckets[i], id)

\* All entries of the table, bucket after bucket.
RECURSIVE EntriesFrom(_, _)
EntriesFrom(buckets, i) ==
    IF i > Len(buckets) THEN <<>>
    ELSE buckets[i].nodes \o EntriesFrom(buckets, i + 1)

Entries(table) == EntriesFrom(table.buckets, 1)

KnownIds(table) == IdsOf(Entries(table))

\* `id in routing_table` and `routing_table[id]`.
Contains(table, id) == id \in KnownIds(table)

GetItem(table, id) ==
    LET es == Entries(table)
        i == CHOOSE j \in 1 .. Len(es) : es[j][1] = id
    IN  es[i][2]

\* Insertion that takes the peer in whether or not there is room.
bucket_add_ignoring_capacity(bucket, size, id, addr, now) ==
    [ok |-> TRUE,
     bucket |-> [bucket EXCEPT
         !.nodes = Append(WithoutId(bucket.nodes, id), <<id, addr>>),
         !.replacement = WithoutId(bucket.replacement, id),
         !.last_updated = now]]

\* Insert or refresh inside one bucket: a known peer moves to the
\* most-recently-seen end, a new one is appended while there is room, and
\* otherwise it is kept as a replacement candidate only.
bucket_add_or_update_node(bucket, size, id, addr, now) ==
    IF id \in IdsOf(bucket.nodes)
    THEN [ok |-> TRUE,
          bucket |-> [bucket EXCEPT
              !.nodes = Append(WithoutId(bucket.nodes, id), <<id, addr>>),
              !.replacement = WithoutId(bucket.replacement, id),
              !.last_updated = now]]
    ELSE IF Len(bucket.nodes) < size
    THEN [ok |-> TRUE,
          bucket |-> [bucket EXCEPT
              !.nodes = Append(bucket.nodes, <<id, addr>>),
              !.replacement = WithoutId(bucket.replacement, id),
              !.last_updated = now]]
    ELSE [ok |-> FALSE,
          bucket |-> [bucket EXCEPT
              !.replacement =
                  Append(WithoutId(bucket.replacement, id), <<id, addr>>)]]

\* A full bucket may split when it covers the local identifier or lies
\* within depth_modulo splits of the root.
may_split(table, bucket) ==
    /\ bucket.upper - bucket.lower > 1
    /\ \/ has_in_range(bucket, table.node_id)
       \/ bucket.depth < table.depth_modulo

\* A split whose halves both take the midpoint.
split_bucket_overlapping(table, index) ==
    LET b == table.buckets[index]
        midpoint == (b.lower + b.upper) \div 2
        left == [b EXCEPT !.upper = midpoint + 1, !.depth = b.depth + 1,
                    !.nodes = InHalf(b.nodes, b.lower, midpoint),
                    !.replacement = InHalf(b.replacement, b.lower, midpoint)]
        right == [b EXCEPT !.lower = midpoint, !.depth = b.depth + 1,
                    !.nodes = InHalf(b.nodes, midpoint, b.upper),
                    !.replacement = InHalf(b.replacement, midpoint, b.upper)]
    IN  [table EXCEPT !.buckets =
            SubSeq(table.buckets, 1, index - 1) \o <<left, right>>
            \o SubSeq(table.buckets, index + 1, Len(table.buckets))]

\* Split at the midpoint and redistribute the entries by half.
split_bucket(table, index) ==
    LET b == table.buckets[index]
        midpoint == (b.lower + b.upper) \div 2
        left == [b EXCEPT !.upper = midpoint, !.depth = b.depth + 1,
                    !.nodes = InHalf(b.nodes, b.lower, midpoint),
                    !.replacement = InHalf(b.replacement, b.lower, midpoint)]
        right == [b EXCEPT !.lower = midpoint, !.depth = b.depth + 1,
                    !.nodes = InHalf(b.nodes, midpoint, b.upper),
                    !.replacement = InHalf(b.replacement, midpoint, b.upper)]
    IN  [table EXCEPT !.buckets =
            SubSeq(table.buckets, 1, index - 1) \o <<left, right>>
            \o SubSeq(table.buckets, index + 1, Len(table.buckets))]

RECURSIVE add_or_update_node(_, _, _, _)
add_or_update_node(table, id, addr, now) ==
    LET index == get_bucket_index(table, id)
        bucket == table.buckets[index]
        r == bucket_add_or_update_node(bucket, table.bucket_size, id, addr, now)
    IN  IF r.ok THEN [table EXCEPT !.buckets[index] = r.bucket]
        ELSE IF may_split(table, bucket)
        THEN add_or_update_node(split_bucket(table, index), id, addr, now)
        ELSE [table EXCEPT !.buckets[index] = r.bucket]

\* An inbound request is a responded contact.
register_request_from(table, sender, sender_id, now) ==
    add_or_update_node(table, sender_id, sender, now)

\* An outbound request: a responded contact inserts or refreshes the peer,
\* one that was not answered inserts nothing.
register_request_to(table, recipient, recipient_node_id, responded, now) ==
    IF responded
    THEN add_or_update_node(table, recipient_node_id, recipient, now)
    ELSE table

\* The identifier of `ids` nearest to target by XOR distance.
Nearest(ids, target) ==
    CHOOSE x \in ids :
        \A y \in ids : xor_distance(x, target) <= xor_distance(y, target)

RECURSIVE SortByDistance(_, _)
SortByDistance(ids, target) ==
    IF ids = {} THEN <<>>
    ELSE LET x == Nearest(ids, target)
         IN  <<x>> \o SortByDistance(ids \ {x}, target)

Take(seq, k) == SubSeq(seq, 1, IF k < Len(seq) THEN k ELSE Len(seq))

\* Up to k known identifiers in ascending XOR distance to target, one
\* identifier optionally left out.
get_nearest_neighbors(table, target, k, exclude) ==
    Take(SortByDistance(KnownIds(table) \ {exclude}, target), k)

(***************************************************************************)
(* Local store (reached as self.node.store / self.node.get; modelled from  *)
(* the specification).  A store maps each key to one record or to none.    *)
(***************************************************************************)
NoRecord == [value |-> NoneValue, expiration_time |-> NoneExp]

EmptyStorage == [k \in Keys |-> NoRecord]

\* put: accept and overwrite iff nothing is held or the held record expires
\* strictly earlier; otherwise reject and leave the record as it is.
put(storage, key, value, expiration_time) ==
    IF storage[key] = NoRecord
       \/ storage[key].expiration_time < expiration_time
    THEN [accepted |-> TRUE,
          storage |-> [storage EXCEPT ![key] =
              [value |-> value, expiration_time |-> expiration_time]]]
    ELSE [accepted |-> FALSE, storage |-> storage]

\* get: the held record iff it has not expired, (None, None) otherwise.
get(storage, key, now) ==
    IF storage[key] # NoRecord /\ storage[key].expiration_time > now
    THEN <<storage[key].value, storage[key].expiration_time>>
    ELSE <<NoneValue, NoneExp>>

(***************************************************************************)
(* Python values handed across the RPC boundary keep their type: a caller  *)
(* that returns a tuple where a bool is expected is told apart.            *)
(***************************************************************************)
PyNone == [type |-> "NoneType", items |-> <<>>]
PyBool(b) == [type |-> "bool", items |-> <<b>>]
PyId(id) == [type |-> "DHTID", items |-> <<id>>]
PyTuple(items) == [type |-> "tuple", items |-> items]
PyList(items) == [type |-> "list", items |-> items]
PyRaised(exception) == [type |-> "raised", items |-> <<exception>>]

(***************************************************************************)
(* KademliaProtocol (hivemind/dht/protocol.py).                            *)
(***************************************************************************)
\* __init__: the attributes a protocol object has.  The routing table it
\* creates is kept in the variable routing_table.
KademliaProtocol(node, bucket_size, modulo, num_neighbors) ==
    [node |-> node, bucket_size |-> bucket_size, num_neighbors |-> num_neighbors]

\* DHTNode.__init__ builds the protocol with partial(KademliaProtocol,
\* self.node_id, bucket_size, depth_modulo, wait_timeout): the fourth
\* positional parameter, num_neighbors, receives wait_timeout.
make_protocol(node_id, bucket_size, depth_modulo, wait_timeout) ==
    KademliaProtocol(node_id, bucket_size, depth_modulo, wait_timeout)

\* self.node.id
own_id(self) == self.node

HasAttr(self, name) == name \in DOMAIN self

\* A handler's outcome: the routing table and local store it leaves, the
\* reply it returns unless it raised, and the calls it made on the routing
\* table and the local store, in the order it made them.
Outcome(table, store, raised, reply, order) ==
    [table |-> table, storage |-> store, raised |-> raised, reply |-> reply,
     order |-> order]

rpc_ping(self, table, store, sender, sender_id, now) ==
    LET t1 == register_request_from(table, sender, sender_id, now)
    IN  Outcome(t1, store, FALSE, PyId(own_id(self)), <<"register_request_from">>)

\* The handler without its local put.
rpc_store_without_put(self, table, store, sender, sender_id, key, value, expiration_time, now) ==
    LET t1 == register_request_from(table, sender, sender_id, now)
    IN  Outcome(t1, store, FALSE, PyTuple(<<TRUE, own_id(self)>>),
                <<"register_request_from">>)

rpc_store(self, table, store, sender, sender_id, key, value, expiration_time, now) ==
    LET t1 == register_request_from(table, sender, sender_id, now)
        r == put(store, key, value, expiration_time)
    IN  Outcome(t1, r.storage, FALSE, PyTuple(<<r.accepted, own_id(self)>>),
                <<"register_request_from", "store">>)

\* The known-target branch returns self.node.id, the other branch returns
\* self.node_id, an attribute __init__ never sets: no reply comes of it.
rpc_find_node(self, table, store, sender, sender_id, key_node, now) ==
    LET t1 == register_request_from(table, sender, sender_id, now)
        neighbor_ids == get_nearest_neighbors(t1, key_node, self.num_neighbors, sender_id)
        neighbors == [i \in 1 .. Len(neighbor_ids) |->
                         <<neighbor_ids[i], GetItem(t1, neighbor_ids[i])>>]
    IN  IF Contains(t1, key_node)
        THEN Outcome(t1, store, FALSE,
                 PyTuple(<<(<<(<<key_node, GetItem(t1, key_node)>>)>>), own_id(self)>>),
                 <<"register_request_from", "__contains__", "__getitem__">>)
        ELSE IF HasAttr(self, "node_id")
        THEN Outcome(t1, store, FALSE, PyTuple(<<neighbors, self.node_id>>),
                 <<"register_request_from", "__contains__", "get_nearest_neighbors">>)
        ELSE Outcome(t1, store, TRUE, PyNone,
                 <<"register_request_from", "__contains__", "get_nearest_neighbors">>)

\* The handler reading the held record past the store's get.
rpc_find_value_raw(self, table, store, sender, sender_id, key, now) ==
    LET found == <<store[key].value, store[key].expiration_time>>
        rest == rpc_find_node(self, table, store, sender, sender_id, key, now)
    IN  IF rest.raised THEN [rest EXCEPT !.order = <<"get">> \o rest.order]
        ELSE [rest EXCEPT !.reply = PyTuple(found \o rest.reply.items),
                          !.order = <<"get">> \o rest.order]

\* tuple(self.node.get(key)) + self.rpc_find_node(sender, sender_id, key):
\* the local get runs first, then the find_node handler.
rpc_find_value(self, table, store, sender, sender_id, key, now) ==
    LET found == get(store, key, now)
        rest == rpc_find_node(self, table, store, sender, sender_id, key, now)
    IN  IF rest.raised THEN [rest EXCEPT !.order = <<"get">> \o rest.order]
        ELSE [rest EXCEPT !.reply = PyTuple(found \o rest.reply.items),
                          !.order = <<"get">> \o rest.order]

\* A caller's outcome: its routing table when it returns, the value it
\* returns, and what it did once the transport had answered, in order.
Returned(table, result, order) ==
    [table |-> table, result |-> result, order |-> order]

\* The identifier carried by a payload, None when there is none.
IdOf(payload, position) ==
    IF payload.type = "DHTID" THEN payload.items[1]
    ELSE IF payload.type = "tuple" THEN payload.items[position]
    ELSE NoneId

\* The caller registering the peer it addressed as if it had answered.
call_ping_registers_anyway(table, recipient, responded, response, now) ==
    LET recipient_node_id == response
        addressed == IF responded THEN IdOf(response, 1) ELSE NodeAt(recipient)
    IN  Returned(register_request_to(table, recipient, addressed, TRUE, now),
                 recipient_node_id, <<"register_request_to", "return">>)

call_ping(table, recipient, responded, response, now) ==
    LET recipient_node_id == response
    IN  Returned(register_request_to(table, recipient, IdOf(response, 1), responded, now),
                 recipient_node_id, <<"register_request_to", "return">>)

\* The caller handing back whatever the transport gave it.
call_store_returns_response(table, recipient, responded, response, now) ==
    LET recipient_node_id == IF responded THEN IdOf(response, 2) ELSE NoneId
    IN  Returned(register_request_to(table, recipient, recipient_node_id, responded, now),
                 response, <<"register_request_to", "return">>)

\* returns `response if responded else False`: the whole (status, id) pair.
call_store(table, recipient, responded, response, now) ==
    LET recipient_node_id == IF responded THEN IdOf(response, 2) ELSE NoneId
    IN  Returned(register_request_to(table, recipient, recipient_node_id, responded, now),
                 IF responded THEN response ELSE PyBool(FALSE),
                 <<"register_request_to", "return">>)

call_find_node(table, recipient, responded, response, now) ==
    LET neighbors == IF responded THEN response.items[1] ELSE <<>>
        recipient_node_id == IF responded THEN IdOf(response, 2) ELSE NoneId
    IN  Returned(register_request_to(table, recipient, recipient_node_id, responded, now),
                 PyList(neighbors), <<"register_request_to", "return">>)

\* The caller returning what it was given without a word to its routing
\* table.
call_find_value_without_register(table, recipient, responded, response, now) ==
    LET value == IF responded THEN response.items[1] ELSE NoneValue
        expiration_time == IF responded THEN response.items[2] ELSE NoneExp
        neighbors == IF responded THEN response.items[3] ELSE <<>>
    IN  Returned(table, PyTuple(<<value, expiration_time, neighbors>>), <<"return">>)

call_find_value(table, recipient, responded, response, now) ==
    LET value == IF responded THEN response.items[1] ELSE NoneValue
        expiration_time == IF responded THEN response.items[2] ELSE NoneExp
        neighbors == IF responded THEN response.items[3] ELSE <<>>
        recipient_node_id == IF responded THEN IdOf(response, 4) ELSE NoneId
    IN  Returned(register_request_to(table, recipient, recipient_node_id, responded, now),
                 PyTuple(<<value, expiration_time, neighbors>>),
                 <<"register_request_to", "return">>)

(***************************************************************************)
(* State.                                                                  *)
(***************************************************************************)
VARIABLES
    clock,          \* time.monotonic()
    protocol,       \* node -> its KademliaProtocol object
    routing_table,  \* node -> protocol.routing_table
    storage,        \* node -> its local store
    rpcs,           \* the requests in flight
    issued,         \* how many requests were issued so far
    returned,       \* the last caller that resumed (the nth): what it got and returned
    delivered,      \* node -> key -> the store requests it handled so far
    boot,           \* the construction of the joining node
    refresh         \* the last run of refresh_stale_buckets

vars == <<clock, protocol, routing_table, storage, rpcs, issued, returned,
          delivered, boot, refresh>>

WaitTimeouts == 1 .. MaxWait

NoReturned ==
    [nth |-> 0, kind |-> "none", caller |-> NoneId, recipient |-> <<>>,
     owner |-> "user", responded |-> FALSE, response |-> PyNone,
     result |-> PyNone, order |-> <<>>]

\* The construction of the joining node before DHTNode.__init__ runs.
BootIdle(wait_timeout) ==
    [pc |-> "idle", initial_peers |-> {}, wait_timeout |-> wait_timeout,
     bootstrap_timeout |-> wait_timeout, began |-> 0,
     time_to_first_response |-> 0, ended |-> 0, tasks |-> <<>>,
     first_finished |-> {}, finished_in_time |-> {}, stragglers |-> {},
     peer_ids |-> {}, warned |-> FALSE, error |-> "none",
     target |-> NoneId, shortlist |-> {}, queried |-> {}, looked_up |-> FALSE,
     find_nearest_nodes |-> PyNone, get |-> PyNone]

\* What a handler run is remembered by while its reply travels: the time,
\* the record held for the key before and after, the peers known once the
\* sender was registered, and the calls the handler made in their order.
NotServed ==
    [now |-> 0, held |-> NoRecord, after |-> NoRecord, known |-> {},
     order |-> <<>>]

\* A request as the transport carries it; the caller passes self.node.id as
\* sender_id.
Request(kind, caller, recipient, key, value, expiration_time, owner) ==
    [kind |-> kind, caller |-> caller, sender_id |-> own_id(protocol[caller]),
     recipient |-> recipient, key |-> key, value |-> value,
     expiration_time |-> expiration_time, owner |-> owner,
     state |-> "sent", reply |-> PyNone, seen |-> NotServed]

\* refresh_stale_buckets has not run.
NotRefreshed ==
    [called |-> FALSE, node |-> NoneId, now |-> 0, staleness_timeout |-> 0,
     stale_buckets |-> <<>>, lookups |-> <<>>, raised |-> "none"]

Init ==
    /\ clock = 0
    /\ \E w \in WaitTimeouts :
           /\ protocol = [n \in Nodes |-> make_protocol(n, BucketSize, DepthModulo, w)]
           /\ boot = BootIdle(w)
    /\ routing_table = [n \in Nodes |-> RoutingTable(n, BucketSize, DepthModulo, 0)]
    /\ storage = [n \in Nodes |-> EmptyStorage]
    /\ rpcs = {}
    /\ issued = 0
    /\ returned = NoReturned
    /\ delivered = [n \in Nodes |-> [k \in Keys |-> {}]]
    /\ refresh = NotRefreshed


Issue(request) ==
    /\ request \notin rpcs
    /\ Cardinality(rpcs) < MaxInFlight
    /\ rpcs' = rpcs \cup {request}
    /\ issued' = issued + 1
    /\ UNCHANGED <<clock, protocol, routing_table, storage, returned,
                   delivered, boot, refresh>>

\* await self.ping(recipient, self.node.id)
CallPing(budget, callers) ==
    /\ issued < budget
    /\ \E caller \in callers : \E peer \in Servers \ {caller} :
           Issue(Request("ping", caller, EndpointOf(peer), NoneId, NoneValue,
                         NoneExp, "user"))

\* await self.store(recipient, self.node.id, key, value, expiration_time)
CallStore(budget, callers) ==
    /\ issued < budget
    /\ \E caller \in callers : \E peer \in Servers \ {caller}, key \in Keys,
          value \in Values, expiration_time \in Expirations :
           Issue(Request("store", caller, EndpointOf(peer), key, value,
                         expiration_time, "user"))

\* await self.find_node(recipient, self.node.id, key_node)
CallFindNode(budget, callers) ==
    /\ issued < budget
    /\ \E caller \in callers : \E peer \in Servers \ {caller}, key_node \in IdSpace :
           Issue(Request("find_node", caller, EndpointOf(peer), key_node,
                         NoneValue, NoneExp, "user"))

\* await self.find_value(recipient, self.node.id, key)
CallFindValue(budget, callers) ==
    /\ issued < budget
    /\ \E caller \in callers : \E peer \in Servers \ {caller}, key \in Keys :
           Issue(Request("find_value", caller, EndpointOf(peer), key,
                         NoneValue, NoneExp, "user"))

\* The recipient's handler for a request.
Handle(self, table, store, c, now) ==
    CASE c.kind = "ping" ->
             rpc_ping(self, table, store, EndpointOf(c.caller), c.sender_id, now)
      [] c.kind = "store" ->
             rpc_store(self, table, store, EndpointOf(c.caller), c.sender_id,
                       c.key, c.value, c.expiration_time, now)
      [] c.kind = "find_node" ->
             rpc_find_node(self, table, store, EndpointOf(c.caller), c.sender_id,
                           c.key, now)
      [] c.kind = "find_value" ->
             rpc_find_value(self, table, store, EndpointOf(c.caller), c.sender_id,
                            c.key, now)

\* The recipient runs the handler; its reply, if it made one, travels back.
Serve ==
    \E c \in rpcs :
        /\ c.state = "sent"
        /\ NodeAt(c.recipient) \in Nodes
        /\ LET n == NodeAt(c.recipient)
               h == Handle(protocol[n], routing_table[n], storage[n], c, clock)
               seen == [now |-> clock,
                        held |-> IF c.key \in Keys THEN storage[n][c.key] ELSE NoRecord,
                        after |-> IF c.key \in Keys THEN h.storage[c.key] ELSE NoRecord,
                        known |-> KnownIds(h.table),
                        order |-> h.order]
           IN  /\ routing_table' = [routing_table EXCEPT ![n] = h.table]
               /\ storage' = [storage EXCEPT ![n] = h.storage]
               /\ rpcs' = (rpcs \ {c}) \cup
                      (IF c.owner = "nobody" THEN {}
                       ELSE {[c EXCEPT
                                !.state = IF h.raised THEN "raised" ELSE "replied",
                                !.reply = h.reply, !.seen = seen]})
               /\ delivered' =
                      IF c.kind = "store"
                      THEN [delivered EXCEPT ![n][c.key] =
                               @ \cup {<<c.value, c.expiration_time>>}]
                      ELSE delivered
        /\ UNCHANGED <<clock, protocol, issued, returned, boot, refresh>>

\* The caller's continuation once the transport hands back
\* (responded, response).
Continue(table, c, responded, response, now) ==
    CASE c.kind = "ping" -> call_ping(table, c.recipient, responded, response, now)
      [] c.kind = "store" -> call_store(table, c.recipient, responded, response, now)
      [] c.kind = "find_node" ->
             call_find_node(table, c.recipient, responded, response, now)
      [] c.kind = "find_value" ->
             call_find_value(table, c.recipient, responded, response, now)

\* What the awaiting task does with the caller's result: a bootstrap ping
\* task completes with it, a lookup merges the neighbours it was given.
Completed(c, result) ==
    CASE c.owner = "boot" ->
             [boot EXCEPT !.tasks[c.recipient] = [state |-> "done", result |-> result]]
      [] c.owner = "lookup" ->
             [boot EXCEPT !.shortlist =
                 @ \cup {result.items[i] : i \in 1 .. Len(result.items)}]
      [] OTHER -> boot

Resume(c, responded, response) ==
    LET r == Continue(routing_table[c.caller], c, responded, response, clock)
    IN  /\ routing_table' = [routing_table EXCEPT ![c.caller] = r.table]
        /\ rpcs' = rpcs \ {c}
        /\ returned' =
               [nth |-> returned.nth + 1, kind |-> c.kind, caller |-> c.caller,
                recipient |-> c.recipient, owner |-> c.owner,
                responded |-> responded, response |-> response,
                result |-> r.result, order |-> r.order]
        /\ boot' = Completed(c, r.result)

\* The reply reaches the caller.
Deliver ==
    \E c \in rpcs :
        /\ c.state = "replied"
        /\ c.owner # "nobody"
        /\ Resume(c, TRUE, c.reply)
        /\ UNCHANGED <<clock, protocol, storage, issued, delivered, refresh>>

\* The recipient did not respond in time: the request or the reply was
\* lost, nobody listens, or the handler made no reply.
Timeout ==
    \E c \in rpcs :
        /\ c.owner # "nobody"
        /\ Resume(c, FALSE, PyNone)
        /\ UNCHANGED <<clock, protocol, storage, issued, delivered, refresh>>

Tick ==
    /\ clock < MaxTime
    /\ clock' = clock + 1
    /\ UNCHANGED <<protocol, routing_table, storage, rpcs, issued, returned,
                   delivered, boot, refresh>>

\* Every kind of request between the running nodes.
Next ==
    \/ CallPing(MaxRpcs, Callers)
    \/ CallStore(MaxRpcs, Callers)
    \/ CallFindNode(MaxRpcs, Callers)
    \/ CallFindValue(MaxRpcs, Callers)
    \/ Serve
    \/ Deliver
    \/ Timeout

Spec == Init /\ [][Next]_vars

\* Store and find_value requests only, with the clock running.
NextStore ==
    \/ CallStore(MaxStoreRpcs, StoreCallers)
    \/ CallFindValue(MaxStoreRpcs, StoreCallers)
    \/ Serve
    \/ Deliver
    \/ Timeout
    \/ Tick

SpecStore == Init /\ [][NextStore]_vars

\* Ping and find_node requests only.
NextRoute ==
    \/ CallPing(MaxRouteRpcs, Callers)
    \/ CallFindNode(MaxRouteRpcs, Callers)
    \/ Serve
    \/ Deliver
    \/ Timeout

SpecRoute == Init /\ [][NextRoute]_vars

(***************************************************************************)
(* DHTNode (hivemind/dht/node.py): construction and bootstrap of Joiner.   *)
(***************************************************************************)
PeerEndpoints == {EndpointOf(n) : n \in BootPeers}

BootstrapTimeouts == 1 .. MaxTime

Pending(tasks) == {p \in DOMAIN tasks : tasks[p].state = "pending"}

Done(tasks) == {p \in DOMAIN tasks : tasks[p].state = "done"}

\* asyncio.wait(fs, ...) raises on an empty set of tasks.
asyncio_wait_raises(fs) == fs = {}

\* __init__ up to the first asyncio.wait: the ping tasks of initial_peers
\* start, unless there is none to wait for.
StartBootstrap ==
    /\ boot.pc = "idle"
    /\ \E initial_peers \in SUBSET PeerEndpoints :
       \E given \in BootstrapTimeouts \cup {NoneExp} :
           LET bootstrap_timeout ==
                   IF given # NoneExp THEN given ELSE boot.wait_timeout
               started == [boot EXCEPT
                   !.initial_peers = initial_peers,
                   !.bootstrap_timeout = bootstrap_timeout,
                   !.began = clock,
                   !.tasks = [p \in initial_peers |->
                                 [state |-> "pending", result |-> PyNone]]]
           IN  IF asyncio_wait_raises(initial_peers)
               THEN /\ boot' = [started EXCEPT !.pc = "failed",
                                               !.error = "Set of Futures is empty"]
                    /\ rpcs' = rpcs
               ELSE /\ boot' = [started EXCEPT !.pc = "wave1"]
                    /\ rpcs' = rpcs \cup
                           {Request("ping", Joiner, p, NoneId, NoneValue, NoneExp,
                                    "boot") : p \in initial_peers}
    /\ UNCHANGED <<clock, protocol, routing_table, storage, issued, returned,
                   delivered, refresh>>

\* asyncio.wait(..., timeout=wait_timeout, return_when=FIRST_COMPLETED)
\* returns once a ping task is done or the timeout has passed.
FirstWaitOver ==
    /\ boot.pc = "wave1"
    /\ \/ Done(boot.tasks) # {}
       \/ clock - boot.began >= boot.wait_timeout

\* The second wait given bootstrap_timeout whole, counted from the end of
\* the first wave.
SecondWaitOver_from_first_response ==
    /\ boot.pc = "wave2"
    /\ \/ Pending(boot.tasks) = {}
       \/ clock - (boot.began + boot.time_to_first_response)
              >= boot.bootstrap_timeout

\* asyncio.wait(remaining_tasks, timeout=bootstrap_timeout -
\* time_to_first_response) returns once all of them are done or the timeout
\* has passed.
SecondWaitOver ==
    /\ boot.pc = "wave2"
    /\ \/ Pending(boot.tasks) = {}
       \/ clock - (boot.began + boot.time_to_first_response)
              >= boot.bootstrap_timeout - boot.time_to_first_response

\* bootstrap part 1 ends and part 2 starts its wait on the remaining tasks.
FirstWaitReturns ==
    /\ FirstWaitOver
    /\ LET first_finished == Done(boot.tasks)
           remaining_tasks == Pending(boot.tasks)
           waited == [boot EXCEPT
               !.first_finished = first_finished,
               !.time_to_first_response = clock - boot.began]
       IN  boot' = IF asyncio_wait_raises(remaining_tasks)
                   THEN [waited EXCEPT !.pc = "failed", !.ended = clock,
                                       !.error = "Set of coroutines/Futures is empty"]
                   ELSE [waited EXCEPT !.pc = "wave2"]
    /\ UNCHANGED <<clock, protocol, routing_table, storage, rpcs, issued,
                   returned, delivered, refresh>>

\* The results of the ping tasks that finished, None left out.
PeerIds(tasks, finished) ==
    {tasks[p].result.items[1] : p \in {q \in finished : tasks[q].result # PyNone}}

\* The seed of a lookup: the peers the routing table knows.
Seeds(table) ==
    {Entries(table)[i] : i \in 1 .. Len(Entries(table))}

\* Cancelling that leaves the calls awaiting their responses.
cancel_leaves_running(requests, owner) == requests

\* task.cancel() on the tasks of `owner` still awaiting a response: the
\* call is thrown out of its await and never goes on; a request already on
\* its way may still reach the recipient, whose reply then goes to nobody.
cancel(requests, owner) ==
    {c \in requests : c.owner # owner}
    \cup {[c EXCEPT !.owner = "nobody"] :
             c \in {d \in requests : d.owner = owner /\ d.state = "sent"}}

\* bootstrap part 2 ends: stragglers are cancelled, the warning is raised
\* when nobody answered, and the lookup for the own identifier starts.
SecondWaitReturns ==
    /\ SecondWaitOver
    /\ LET finished_in_time == Done(boot.tasks) \ boot.first_finished
           stragglers == Pending(boot.tasks)
           peer_ids == PeerIds(boot.tasks, boot.first_finished \cup finished_in_time)
       IN  /\ boot' = [boot EXCEPT
                   !.pc = "lookup",
                   !.ended = clock,
                   !.finished_in_time = finished_in_time,
                   !.stragglers = stragglers,
                   !.tasks = [p \in DOMAIN boot.tasks |->
                                 IF p \in stragglers
                                 THEN [state |-> "cancelled", result |-> PyNone]
                                 ELSE boot.tasks[p]],
                   !.peer_ids = peer_ids,
                   !.warned = (peer_ids = {} /\ boot.initial_peers # {}),
                   !.target = Joiner,
                   !.shortlist = Seeds(routing_table[Joiner])]
           /\ rpcs' = cancel(rpcs, "boot")
    /\ UNCHANGED <<clock, protocol, routing_table, storage, issued, returned,
                   delivered, refresh>>

\* beam_search: ask the peer of the shortlist nearest to the target and
\* not asked yet.
LookupQuery ==
    /\ boot.pc = "lookup"
    /\ Cardinality({c \in rpcs : c.owner = "lookup"}) < Alpha
    /\ LET candidates == {e \in boot.shortlist :
                             e[1] \notin boot.queried /\ e[1] # Joiner}
       IN  /\ candidates # {}
           /\ LET id == Nearest({e[1] : e \in candidates}, boot.target)
                  peer == CHOOSE e \in candidates : e[1] = id
              IN  /\ rpcs' = rpcs \cup
                         {Request("find_node", Joiner, peer[2], boot.target,
                                  NoneValue, NoneExp, "lookup")}
                  /\ boot' = [boot EXCEPT !.queried = @ \cup {id}]
    /\ UNCHANGED <<clock, protocol, routing_table, storage, issued, returned,
                   delivered, refresh>>

\* beam_search: the round is over (its time is up or it may stop early) and
\* the requests it still waits for are cancelled.
LookupRoundEnds ==
    /\ boot.pc = "lookup"
    /\ \E c \in rpcs : c.owner = "lookup"
    /\ rpcs' = cancel(rpcs, "lookup")
    /\ UNCHANGED <<clock, protocol, routing_table, storage, issued, returned,
                   delivered, boot, refresh>>

\* find_nearest_nodes awaits beam_search and has no return statement.
find_nearest_nodes(shortlist) == PyNone

\* The lookup has converged; __init__ ends and the node is running.
LookupReturns ==
    /\ boot.pc = "lookup"
    /\ {c \in rpcs : c.owner = "lookup"} = {}
    /\ {e \in boot.shortlist : e[1] \notin boot.queried /\ e[1] # Joiner} = {}
    /\ boot' = [boot EXCEPT !.pc = "running", !.looked_up = TRUE,
                            !.find_nearest_nodes = find_nearest_nodes(boot.shortlist)]
    /\ UNCHANGED <<clock, protocol, routing_table, storage, rpcs, issued,
                   returned, delivered, refresh>>

\* DHTNode.get raises NotImplementedError.
DHTNode_get(key) == PyRaised("NotImplementedError")

GetCalled ==
    /\ boot.pc = "running"
    /\ \E key \in Keys : boot' = [boot EXCEPT !.get = DHTNode_get(key)]
    /\ UNCHANGED <<clock, protocol, routing_table, storage, rpcs, issued,
                   returned, delivered, refresh>>

\* Time passes while __init__ waits, and no further than the next return
\* of asyncio.wait.
TickBoot ==
    /\ boot.pc \in {"wave1", "wave2"}
    /\ ~FirstWaitOver
    /\ ~SecondWaitOver
    /\ Tick

NextBoot ==
    \/ StartBootstrap
    \/ Serve
    \/ Deliver
    \/ Timeout
    \/ TickBoot
    \/ FirstWaitReturns
    \/ SecondWaitReturns
    \/ LookupQuery
    \/ LookupRoundEnds
    \/ LookupReturns
    \/ GetCalled

SpecBoot == Init /\ [][NextBoot]_vars

(***************************************************************************)
(* One node's routing table under a stream of pings from any peer, and     *)
(* DHTNode.refresh_stale_buckets on that node.                             *)
(***************************************************************************)
StalenessTimeouts == 1 .. (MaxTime - 1)

\* A ping from the peer `sender_id` is handled by node n.
PingFrom(n, sender_id) ==
    LET h == rpc_ping(protocol[n], routing_table[n], storage[n],
                      EndpointOf(sender_id), sender_id, clock)
    IN  /\ routing_table' = [routing_table EXCEPT ![n] = h.table]
        /\ issued' = issued + 1
        /\ UNCHANGED <<clock, protocol, storage, rpcs, returned, delivered,
                       boot, refresh>>

PingServed ==
    /\ issued < MaxObservations
    /\ \E n \in Servers : \E sender_id \in IdSpace \ {n} : PingFrom(n, sender_id)

\* refresh_stale_buckets: the stale buckets are collected; drawing the
\* refresh ids calls random.randint on the function `random` imported from
\* the module random, which has no such attribute; past that the method
\* raises NotImplementedError.  No lookup is issued either way.
refresh_stale_buckets(table, staleness_timeout, now) ==
    LET staleness_threshold == now - staleness_timeout
        stale_buckets == SelectSeq(table.buckets,
                             LAMBDA bucket : bucket.last_updated < staleness_threshold)
    IN  [stale_buckets |-> stale_buckets,
         lookups |-> <<>>,
         raised |-> IF Len(stale_buckets) > 0 THEN "AttributeError"
                    ELSE "NotImplementedError"]

RefreshStaleBuckets ==
    /\ \E n \in Servers : \E staleness_timeout \in StalenessTimeouts :
           LET r == refresh_stale_buckets(routing_table[n], staleness_timeout, clock)
           IN  refresh' = [called |-> TRUE, node |-> n, now |-> clock,
                           staleness_timeout |-> staleness_timeout,
                           stale_buckets |-> r.stale_buckets,
                           lookups |-> r.lookups, raised |-> r.raised]
    /\ UNCHANGED <<clock, protocol, routing_table, storage, rpcs, issued,
                   returned, delivered, boot>>

(***************************************************************************)
(* A lookup by a running node in a network in which every node knows every *)
(* other and every node handles what it is sent.                           *)
(***************************************************************************)
\* The table after the peers `ids` were observed, smallest identifier first.
RECURSIVE Observed(_, _, _)
Observed(table, ids, now) ==
    IF ids = {} THEN table
    ELSE LET id == CHOOSE x \in ids : \A y \in ids : x <= y
         IN  Observed(register_request_from(table, EndpointOf(id), id, now),
                      ids \ {id}, now)

InitConnected ==
    /\ clock = 0
    /\ \E w \in WaitTimeouts :
           /\ protocol = [n \in Nodes |-> make_protocol(n, BucketSize, DepthModulo, w)]
           /\ boot = [BootIdle(w) EXCEPT !.pc = "running"]
    /\ routing_table =
           [n \in Nodes |->
               Observed(RoutingTable(n, BucketSize, DepthModulo, 0), Nodes \ {n}, 0)]
    /\ storage = [n \in Nodes |-> EmptyStorage]
    /\ rpcs = {}
    /\ issued = 0
    /\ returned = NoReturned
    /\ delivered = [n \in Nodes |-> [k \in Keys |-> {}]]
    /\ refresh = NotRefreshed

\* await node.find_nearest_nodes(query_id) on the running node.
FindNearestNodes ==
    /\ boot.pc = "running"
    /\ ~boot.looked_up
    /\ \E query_id \in Nodes :
           boot' = [boot EXCEPT !.pc = "lookup", !.target = query_id,
                                !.shortlist = Seeds(routing_table[Joiner])]
    /\ UNCHANGED <<clock, protocol, routing_table, storage, rpcs, issued,
                   returned, delivered, refresh>>

\* A request whose handler raised is never answered: its caller goes on
\* once the transport gives up.
HandlerFailed ==
    \E c \in rpcs :
        /\ c.state = "raised"
        /\ c.owner # "nobody"
        /\ Resume(c, FALSE, PyNone)
        /\ UNCHANGED <<clock, protocol, storage, issued, delivered, refresh>>

NextLookup ==
    \/ FindNearestNodes
    \/ LookupQuery
    \/ Serve
    \/ Deliver
    \/ HandlerFailed
    \/ LookupReturns

SpecLookup == InitConnected /\ [][NextLookup]_vars

NextTable ==
    \/ PingServed
    \/ Tick
    \/ RefreshStaleBuckets

SpecTable == Init /\ [][NextTable]_vars

(***************************************************************************)
(* Properties.                                                             *)
(***************************************************************************)
StoreServed == {c \in rpcs : c.kind = "store" /\ c.state = "replied"}

RecordOf(c) == [value |-> c.value, expiration_time |-> c.expiration_time]

FindValueServed == {c \in rpcs : c.kind = "find_value" /\ c.state = "replied"}

Expired(record, now) == record # NoRecord /\ record.expiration_time <= now

MaxExpiration(requests) ==
    CHOOSE t \in {r[2] : r \in requests} : \A r \in requests : r[2] <= t

\* The store requests of `requests` with the greatest expiration_time.
Latest(requests) == {r \in requests : r[2] = MaxExpiration(requests)}

\* The record held is one of the latest requests handled, and the very one
\* when it is alone.
HighestExpirationHeld ==
    \A n \in Nodes : \A k \in Keys :
        delivered[n][k] # {} =>
            /\ <<storage[n][k].value, storage[n][k].expiration_time>>
                   \in Latest(delivered[n][k])

\* A step in which node n handles store request c.
HandlesStore(c, n) ==
    /\ c \in rpcs
    /\ c.kind = "store"
    /\ c.state = "sent"
    /\ NodeAt(c.recipient) = n
    /\ c \notin rpcs'
    /\ delivered'[n][c.key] = delivered[n][c.key] \cup {<<c.value, c.expiration_time>>}
    /\ Cardinality(rpcs') = Cardinality(rpcs)

\* Handling a store request the node has handled before changes nothing in
\* its store.
RepeatedStoreChangesNothing ==
    \A n \in Nodes : \A c \in rpcs :
        (HandlesStore(c, n) /\ <<c.value, c.expiration_time>> \in delivered[n][c.key])
            => storage'[n] = storage[n]

BootEnded == boot.pc \in {"failed", "running"}

BothKnowEachOther(a, b) ==
    /\ Contains(routing_table[a], b)
    /\ Contains(routing_table[b], a)

\* The ping of peer p was answered with its identifier.
Responded(p) ==
    /\ p \in DOMAIN boot.tasks
    /\ boot.tasks[p].state = "done"
    /\ boot.tasks[p].result = PyId(NodeAt(p))

\* C4: when the node is created with one peer's endpoint as its only
\* initial peer and that peer answers the ping, bootstrap completes, and
\* afterwards each of the two routing tables contains the other's
\* identifier.
C4_BootstrapWithOnePeerCompletes ==
    \A b \in BootPeers :
        (boot.initial_peers = {EndpointOf(b)} /\ Responded(EndpointOf(b)) /\ BootEnded)
            => (boot.pc = "running" /\ BothKnowEachOther(Joiner, b))

\* C5: a node created with no initial peers finishes bootstrap without an
\* error and runs, and its get returns (None, None) for every key.
C5_IsolatedNodeRunsAndGetsNothing ==
    (boot.pc # "idle" /\ boot.initial_peers = {}) =>
        /\ boot.pc # "failed"
        /\ boot.error = "none"
        /\ boot.get \in {PyNone, PyTuple(<<NoneValue, NoneExp>>)}

\* No ping of a non-empty initial_peers was answered: each timed out or was
\* cancelled.
NobodyResponded ==
    /\ boot.initial_peers # {}
    /\ \A p \in boot.initial_peers : ~Responded(p)

\* C6: when initial_peers is non-empty and no peer answers its ping,
\* bootstrap does not fail: the warning is raised, in exactly this case,
\* and the lookup for the own identifier still runs and construction
\* completes.
C6_UnansweredBootstrapWarnsAndCompletes ==
    /\ (boot.pc \in {"failed", "lookup", "running"} /\ NobodyResponded) =>
           /\ boot.pc # "failed"
           /\ boot.warned
           /\ boot.pc = "running" => boot.looked_up
    /\ boot.warned => NobodyResponded

\* What a caller hands back when the recipient did not respond.
Neutral(kind) ==
    CASE kind = "ping" -> PyNone
      [] kind = "store" -> PyBool(FALSE)
      [] kind = "find_node" -> PyList(<<>>)
      [] kind = "find_value" -> PyTuple(<<NoneValue, NoneExp, <<>>>>)

C8_CallStoreReturnsAcceptedFlag ==
    (returned.kind = "store" /\ returned.responded) =>
        /\ returned.result.type = "bool"
        /\ returned.result = PyBool(returned.response.items[1])

FindNodeServed == {c \in rpcs : c.kind = "find_node" /\ c.state \in {"replied", "raised"}}

Ascending(peers, target) ==
    \A i \in 1 .. Len(peers) : \A j \in 1 .. Len(peers) :
        i < j => xor_distance(peers[i][1], target) <= xor_distance(peers[j][1], target)

\* C9: the reply to a find_node request is (peer list, the server's own
\* identifier); a target in the routing table comes first in the list;
\* otherwise the list holds at most num_neighbors peers of the routing
\* table in ascending XOR distance to the target, and no known peer left
\* out, the sender apart, is closer than one in it.
C9_FindNodeReply ==
    \A c \in FindNodeServed :
        LET server == NodeAt(c.recipient)
            known == c.seen.known
        IN  /\ c.state = "replied"
            /\ c.reply.type = "tuple"
            /\ c.reply.items[2] = server
            /\ LET peers == c.reply.items[1]
                   listed == {peers[i][1] : i \in 1 .. Len(peers)}
               IN  IF c.key \in known
                   THEN Len(peers) >= 1 /\ peers[1][1] = c.key
                   ELSE /\ Len(peers) <= protocol[server].num_neighbors
                        /\ listed \subseteq known
                        /\ Ascending(peers, c.key)
                        /\ \A out \in known \ (listed \cup {c.sender_id}) :
                               \A in \in listed :
                                   xor_distance(in, c.key) <= xor_distance(out, c.key)

\* C10: find_nearest_nodes returns to its caller a mapping identifier ->
\* endpoint of the nearest nodes the lookup found.
C10_FindNearestNodesReturnsMapping ==
    boot.looked_up =>
        /\ boot.find_nearest_nodes.type = "dict"
        /\ boot.find_nearest_nodes.items \subseteq boot.shortlist

\* C11: refresh_stale_buckets issues exactly one lookup for each bucket whose
\* last_updated is older than now - staleness_timeout and none for any
\* other bucket, and each lookup's target lies in its bucket's range.
C11_RefreshLooksUpEachStaleBucket ==
    refresh.called =>
        /\ Len(refresh.lookups) = Len(refresh.stale_buckets)
        /\ \A i \in 1 .. Len(refresh.lookups) :
               has_in_range(refresh.stale_buckets[i], refresh.lookups[i])

Handled == {c \in rpcs : c.state \in {"replied", "raised"}}

Count(seq, x) == Cardinality({i \in 1 .. Len(seq) : seq[i] = x})

\* C12: each of the four handlers applies register_request_from exactly
\* once per request, and before it computes any part of its result (the
\* local put or get, the membership test, the neighbour query).
C12_RegisterFromComesFirst ==
    \A c \in Handled :
        /\ Count(c.seen.order, "register_request_from") = 1
        /\ c.seen.order[1] = "register_request_from"

\* A step in which a caller hands back its result.
CallerReturns == returned'.nth # returned.nth

\* The caller's routing table when its result is handed back is the one it
\* had with the contact registered: the recipient under the identifier it
\* answered with, or the lack of an answer.
RegisteredOnReturn ==
    CallerReturns =>
        LET caller == returned'.caller
            recipient == returned'.recipient
            recipient_node_id ==
                IF returned'.responded THEN NodeAt(recipient) ELSE NoneId
        IN  /\ Count(returned'.order, "register_request_to") = 1
            /\ returned'.order[Len(returned'.order)] = "return"
            /\ routing_table'[caller] =
                   register_request_to(routing_table[caller], recipient,
                       recipient_node_id, returned'.responded, clock)

PingPhaseOver == boot.pc \in {"lookup", "running"}

Max(a, b) == IF a >= b THEN a ELSE b

\* C14 as claimed: the ping phase of bootstrap ends no later than
\* bootstrap_timeout after bootstrap start, whatever wait_timeout,
\* bootstrap_timeout and the peers' response times.
C14_PingPhaseWithinBootstrapTimeout ==
    PingPhaseOver => boot.ended - boot.began <= boot.bootstrap_timeout

\* C14 as amended: the first wave ends no later than wait_timeout after
\* bootstrap start, and the ping phase ends no later than bootstrap_timeout
\* after bootstrap start or, when the first wave outlasted that, with the
\* first wave; a wait that raises does so within the same bounds.
C14_PingPhaseBounded ==
    /\ boot.pc \in {"wave1", "wave2"} =>
           clock - boot.began <= Max(boot.bootstrap_timeout, boot.wait_timeout)
    /\ boot.pc = "failed" => boot.ended - boot.began <= boot.wait_timeout
    /\ PingPhaseOver =>
           /\ boot.time_to_first_response <= boot.wait_timeout
           /\ boot.ended - boot.began
                  <= Max(boot.bootstrap_timeout, boot.time_to_first_response)

\* bootstrap_timeout < wait_timeout and no ping completed in the first
\* wave: the phase ended with the first wave, after bootstrap_timeout.
C14_Witness ==
    /\ boot.pc \in {"lookup", "running"}
    /\ boot.bootstrap_timeout < boot.wait_timeout
    /\ boot.first_finished = {}
    /\ boot.ended - boot.began = boot.wait_timeout

\* Once the waits on the ping tasks are over, none of them is pending.
NoPingTaskLeftPending ==
    boot.pc \in {"failed", "lookup", "running"} => Pending(boot.tasks) = {}

\* Only a pending ping task has a call that may still go on.
OnlyPendingTasksAwait ==
    \A c \in rpcs : c.owner = "boot" => boot.tasks[c.recipient].state = "pending"

\* A cancelled task stays cancelled; the step that cancels calls, and any
\* step that ends a cancelled call, hands back no result and leaves the
\* caller's routing table as it was; the joining node's routing table
\* changes only as one of its calls hands back its result.
CancelledCallStaysOut ==
    /\ \A p \in DOMAIN boot.tasks :
           boot.tasks[p].state = "cancelled" => boot'.tasks[p].state = "cancelled"
    /\ (\E c \in rpcs' \ rpcs : c.owner = "nobody") =>
           (~CallerReturns /\ routing_table' = routing_table)
    /\ \A c \in rpcs :
           (c.owner = "nobody" /\ c \notin rpcs') =>
               (~CallerReturns /\ routing_table'[c.caller] = routing_table[c.caller])
    /\ routing_table'[Joiner] # routing_table[Joiner] =>
           (CallerReturns /\ returned'.caller = Joiner)

\* C15: an outbound call cancelled while it waits for its response (a
\* bootstrap straggler, a pending request of a lookup round) never applies
\* register_request_to, so that the caller's routing table is what it would
\* be had the call not been issued; and after bootstrap no ping task is
\* left pending: each has completed or been cancelled.
C15_CancelledCallNeverRegisters ==
    /\ [](NoPingTaskLeftPending /\ OnlyPendingTasksAwait)
    /\ [][CancelledCallStaysOut]_vars

\* A straggler was cancelled after its ping had reached the peer: the peer
\* holds the joining node, the joining node does not hold the peer.
C15_Witness ==
    /\ boot.pc = "running"
    /\ \E p \in boot.stragglers :
           /\ boot.tasks[p].state = "cancelled"
           /\ \A c \in rpcs : c.recipient # p
           /\ Contains(routing_table[NodeAt(p)], Joiner)
           /\ ~Contains(routing_table[Joiner], NodeAt(p))

\* C16: an outbound call whose recipient does not respond never inserts a
\* peer into the caller's routing table: once the caller has applied
\* register_request_to(recipient, None, responded=False) and returned, the
\* bucket entries hold no identifier that was absent before.
C16_NoResponseInsertsNobody ==
    [][(CallerReturns /\ ~returned'.responded) =>
           KnownIds(routing_table'[returned'.caller])
               \subseteq KnownIds(routing_table[returned'.caller])]_vars

\* A ping reached its recipient and the answer was lost: the recipient holds
\* the caller, the caller got None and holds nobody.
C16_Witness ==
    /\ returned.kind = "ping"
    /\ ~returned.responded
    /\ returned.result = PyNone
    /\ Contains(routing_table[NodeAt(returned.recipient)], returned.caller)
    /\ KnownIds(routing_table[returned.caller]) = {}

BucketsOf(n) == {routing_table[n].buckets[i] : i \in 1 .. Len(routing_table[n].buckets)}

\* C17: after any sequence of peer observations and bucket splits the
\* buckets' half-open ranges [lower, upper) partition the identifier space:
\* every identifier lies in exactly one bucket.
C17_BucketsPartitionIdSpace ==
    \A n \in Nodes :
        /\ \A id \in IdSpace :
               Cardinality({i \in 1 .. Len(routing_table[n].buckets) :
                               has_in_range(routing_table[n].buckets[i], id)}) = 1
        /\ \A b \in BucketsOf(n) :
               0 <= b.lower /\ b.lower < b.upper /\ b.upper <= 2 ^ IdBits

\* A table that split twice, with peers on both sides of a split.
C17_Witness ==
    \E n \in Nodes :
        /\ Len(routing_table[n].buckets) >= 3
        /\ Cardinality({b \in BucketsOf(n) : b.nodes # <<>>}) >= 2

\* No bucket is over capacity, no peer is both an entry and a replacement
\* candidate, and candidates wait only on full buckets that may not split.
WithinCapacity ==
    \A n \in Nodes : \A b \in BucketsOf(n) :
        /\ Len(b.nodes) <= routing_table[n].bucket_size
        /\ Cardinality(IdsOf(b.nodes)) = Len(b.nodes)
        /\ IdsOf(b.nodes) \cap IdsOf(b.replacement) = {}
        /\ b.replacement # <<>> =>
               /\ Len(b.nodes) = routing_table[n].bucket_size
               /\ ~may_split(routing_table[n], b)

\* A step in which node n observes the peer id, new to it, whose bucket is
\* full and may not split: the bucket keeps its entries and the peer waits
\* as a replacement candidate.
OverflowBecomesCandidate ==
    \A n \in Nodes : \A id \in IdSpace \ {n} :
        LET table == routing_table[n]
            index == get_bucket_index(table, id)
            bucket == table.buckets[index]
        IN  (/\ routing_table'[n] # table
             /\ routing_table'[n] = register_request_from(table, EndpointOf(id), id, clock)
             /\ id \notin IdsOf(bucket.nodes)
             /\ Len(bucket.nodes) = table.bucket_size
             /\ ~may_split(table, bucket))
            => /\ Len(routing_table'[n].buckets) = Len(table.buckets)
               /\ routing_table'[n].buckets[index].nodes = bucket.nodes
               /\ id \in IdsOf(routing_table'[n].buckets[index].replacement)
               /\ id \notin KnownIds(routing_table'[n])

\* C18: after any sequence of peer observations no bucket holds more than
\* bucket_size entries; a new peer observed for a full bucket that may not
\* split leaves the bucket's entries unchanged and is kept as a replacement
\* candidate only, never also as an entry.
C18_FullBucketKeepsEntries ==
    []WithinCapacity /\ [][OverflowBecomesCandidate]_vars

\* bucket_size + 1 peers of one range that may not split were observed:
\* bucket_size are entries, the last is a replacement candidate only.
C18_Witness ==
    \E n \in Nodes : \E b \in BucketsOf(n) :
        /\ ~has_in_range(b, n)
        /\ Len(b.nodes) = routing_table[n].bucket_size
        /\ Len(b.replacement) = 1
        /\ IdsOf(b.replacement) \cap IdsOf(b.nodes) = {}

\* Every node holds every other node.
FullyConnected ==
    \A a \in Nodes : \A b \in Nodes \ {a} : Contains(routing_table[a], b)

\* The identifiers of a returned mapping; a value that is no mapping has
\* none.
ResultIds(result) ==
    IF result.type = "dict" THEN {e[1] : e \in result.items} ELSE {}

\* C19: in a fully connected network in which every peer responds, a
\* lookup for the identifier of an existing peer terminates with that
\* identifier in the shortlist it returns.
C19_LookupFindsExistingPeer ==
    (FullyConnected /\ boot.looked_up /\ boot.target \in Nodes) =>
        boot.target \in ResultIds(boot.find_nearest_nodes)

\* The peer list of a find_node or find_value reply.
PeersIn(c) ==
    IF c.kind = "find_node" THEN c.reply.items[1] ELSE c.reply.items[3]

\* C20: for every find_node or find_value request and every target, the
\* sender's own identifier included, the peer list of the server's reply
\* never contains the sender's own identifier.
C20_ReplyNeverNamesSender ==
    \A c \in rpcs :
        (c.kind \in {"find_node", "find_value"} /\ c.state = "replied") =>
            c.sender_id \notin IdsOf(PeersIn(c))

=============================================================================
